---- MODULE Spec2Model ----
(***************************************************************************)
(* Event-to-alert arbitration of selfdrive/controls/lib/events.py:         *)
(* the Events collector (events, static_events, events_prev), the EVENTS   *)
(* catalog and the Alert descriptors it resolves to.                       *)
(*                                                                         *)
(* Time is measured in milliseconds.  Identifiers are the raw values of    *)
(* the EventName enumeration; EVENT_NAME maps a raw value to its name.     *)
(* The catalog of the model is the part of EVENTS listed below, in the     *)
(* order in which the source registers it.                                 *)
(*                                                                         *)
(* Spec drives every operation tick by tick.  SpecLong follows a long run  *)
(* of ticks in which identifiers are added, static or not, again and       *)
(* again, with longer static_events lists and larger counters.             *)
(***************************************************************************)
EXTENDS Integers, Sequences, FiniteSets, TLC

\* events, static_events, events_prev: the fields of the Events object
\* out: the last operation, its arguments and what it returned or raised
\* streak: for every catalog identifier, the number of ticks in a row, up to
\*   the last clear, at whose end the identifier was in events (history)
\* catalog_writes: the entries <<e, et>> of EVENTS that hold an Alert instance
\*   and whose instance the last operation assigned a field of
VARIABLES events, static_events, events_prev, out, streak, catalog_writes

vars == <<events, static_events, events_prev, out, streak, catalog_writes>>

\* ---------------------------------------------------------------- bounds
\* longest events list the model builds within one tick
MaxEvents == 2
\* longest static_events list the model builds
MaxStatic == 1
\* largest value a counter of events_prev reaches
MaxTicks == 2
\* longest static_events list built when identifiers are added with
\* static=True tick after tick
LongStatic == 2
\* largest value a counter of events_prev reaches over such a run of ticks
LongTicks == 3
\* control period in ms (common.realtime.DT_CTRL, widened so that the
\* creation delays of the catalog span a few ticks)
DT_CTRL == 250

\* ------------------------------------------------------------- utilities
Range(s) == {s[i] : i \in 1..Len(s)}

\* ------------------------------------------------------------ Priority
LOWEST == 0
LOWER == 1
LOW == 2
MID == 3
HIGH == 4
HIGHEST == 5

\* ------------------------------------------------------------------- ET
ENABLE == "enable"
PRE_ENABLE == "preEnable"
NO_ENTRY == "noEntry"
WARNING == "warning"
USER_DISABLE == "userDisable"
SOFT_DISABLE == "softDisable"
IMMEDIATE_DISABLE == "immediateDisable"
PERMANENT == "permanent"

ET == {ENABLE, PRE_ENABLE, NO_ENTRY, WARNING, USER_DISABLE, SOFT_DISABLE,
       IMMEDIATE_DISABLE, PERMANENT}

\* ------------------------------------------------------------ EventName
\* raw values of the enumerants the model uses (the schema is cereal's
\* car.capnp; the model only needs them distinct); unregistered stands for
\* an enumerant that EVENTS has no entry for
EventName == [wrongCarMode |-> 8, reverseGear |-> 10, outOfSpace |-> 18,
              preLaneChangeLeft |-> 57, unregistered |-> 200]

\* EVENT_NAME = {v: k for k, v in EventName.schema.enumerants.items()}
EVENT_NAME == [v \in {EventName[k] : k \in DOMAIN EventName} |->
                 CHOOSE k \in DOMAIN EventName : EventName[k] = v]

\* the identifiers pushed tick by tick
EventIds == DOMAIN EVENT_NAME \ {EventName.preLaneChangeLeft}

\* the identifiers pushed over a long run of ticks: one with a creation
\* delay, one with an alert rate and one that EVENTS has no entry for
LongIds == {EventName.reverseGear, EventName.preLaneChangeLeft, EventName.unregistered}

\* ---------------------------------------------------------------- Alert
\* Alert.__init__: the fields the arbitration reads or writes, with the
\* stamps alert_type and event_type empty ("" and None) at construction;
\* alert_rate is in hundredths, creation_delay in ms
Alert(alert_text_1, alert_text_2, alert_priority, alert_rate, creation_delay) ==
  [alert_text_1 |-> alert_text_1, alert_text_2 |-> alert_text_2,
   alert_priority |-> alert_priority, alert_rate |-> alert_rate,
   creation_delay |-> creation_delay, start_time |-> 0,
   alert_type |-> "", event_type |-> "None"]

NoEntryAlert(alert_text_2) == Alert("NoEntry", alert_text_2, LOW, 0, 0)

SoftDisableAlert(alert_text_2) == Alert("TakeControl", alert_text_2, MID, 0, 0)

EngagementAlert(audible_alert) == Alert("", "", MID, 0, 0)

\* Alert.__gt__
Alert__gt__(self, alert2) == self.alert_priority > alert2.alert_priority

\* ------------------------------------------------- alert callback functions
\* wrong_car_mode_alert(CP, sm, metric)
wrong_car_mode_alert(CP, sm, metric) ==
  NoEntryAlert(IF CP.carName = "honda" THEN "MainSwitchOff" ELSE "CruiseDisabled")

\* a catalog entry is an Alert instance or a callable
Static(alert) == [isAlert |-> TRUE, alert |-> alert, fn |-> ""]
Callable(fn) == [isAlert |-> FALSE, alert |-> Alert("", "", LOWEST, 0, 0), fn |-> fn]

\* a call of a callable entry that answers a failing callback with an empty
\* alert in place of raising
Call_swallowed(fn, callback_args) ==
  IF fn # "wrong_car_mode_alert" \/ Len(callback_args) # 3
  THEN [raised |-> "", alert |-> Alert("", "", LOWEST, 0, 0)]
  ELSE [raised |-> "",
        alert |-> wrong_car_mode_alert(callback_args[1], callback_args[2],
                                       callback_args[3])]

\* alert(*callback_args) for a callable entry: TypeError unless the three
\* positional arguments CP, sm, metric are given
Call(fn, callback_args) ==
  IF fn # "wrong_car_mode_alert" \/ Len(callback_args) # 3
  THEN [raised |-> "TypeError", alert |-> Alert("", "", LOWEST, 0, 0)]
  ELSE [raised |-> "",
        alert |-> wrong_car_mode_alert(callback_args[1], callback_args[2],
                                       callback_args[3])]

\* --------------------------------------------------------------- EVENTS
\* the order in which EVENTS registers the identifiers of the model
CatalogOrder == <<EventName.preLaneChangeLeft, EventName.wrongCarMode,
                  EventName.outOfSpace, EventName.reverseGear>>

EVENTS ==
  (EventName.preLaneChangeLeft :>
     (WARNING :> Static(Alert("PreLaneChangeLeft", "", LOW, 75, 0)))) @@
  (EventName.wrongCarMode :>
     (USER_DISABLE :> Static(EngagementAlert("chimeDisengage")) @@
      NO_ENTRY :> Callable("wrong_car_mode_alert"))) @@
  (EventName.outOfSpace :>
     (PERMANENT :> Static(Alert("OutOfSpace", "", LOWER, 0, 0)) @@
      NO_ENTRY :> Static(NoEntryAlert("OutOfSpace")))) @@
  (EventName.reverseGear :>
     (PERMANENT :> Static(Alert("ReverseGear", "", LOWEST, 0, 500)) @@
      SOFT_DISABLE :> Static(SoftDisableAlert("ReverseGear")) @@
      NO_ENTRY :> Static(NoEntryAlert("ReverseGear"))))

\* EVENTS.keys()
EVENTS_keys == DOMAIN EVENTS

\* EVENTS.get(e, {}).keys()
EVENTS_get_keys(e) == IF e \in EVENTS_keys THEN DOMAIN EVENTS[e] ELSE {}

\* the arguments controlsd hands to the alert callbacks
DefaultArgs == <<[carName |-> "hyundai"], "sm", TRUE>>

\* the descriptor EVENTS gives the identifier e under the type et
Descriptor(e, et) ==
  IF EVENTS[e][et].isAlert THEN EVENTS[e][et].alert
  ELSE Call(EVENTS[e][et].fn, DefaultArgs).alert

\* the longest creation delay of the catalog, in ticks of DT_CTRL
MaxDelayTicks ==
  LET entries == {p \in EVENTS_keys \X ET : p[2] \in DOMAIN EVENTS[p[1]]}
      delays == {Descriptor(p[1], p[2]).creation_delay : p \in entries}
      longest == CHOOSE d \in delays : \A x \in delays : x <= d
  IN (longest + DT_CTRL - 1) \div DT_CTRL

\* --------------------------------------------------------------- Events
\* Events.__init__
Events_init ==
  /\ events = <<>>
  /\ static_events = <<>>
  /\ events_prev = [k \in EVENTS_keys |-> 0]

\* Events.__len__
len(ev) == Len(ev)

\* Events.any: the first event of the list that has event_type decides
RECURSIVE any_from(_, _, _)
any_from(ev, event_type, i) ==
  IF i > Len(ev) THEN FALSE
  ELSE IF event_type \in EVENTS_get_keys(ev[i]) THEN TRUE
  ELSE any_from(ev, event_type, i + 1)

\* an any that looks identifiers up with EVENTS[e], as create_alerts does
any_strict(ev, event_type) ==
  IF \E i \in 1..Len(ev) : ev[i] \notin EVENTS_keys
  THEN [raised |-> "KeyError", ret |-> FALSE]
  ELSE [raised |-> "", ret |-> any_from(ev, event_type, 1)]

\* an any that returns from the loop after the first event
any_first_only(ev, event_type) ==
  [raised |-> "", ret |-> ev # <<>> /\ event_type \in EVENTS_get_keys(ev[1])]

\* an any whose loop starts at the second event
any_skip_first(ev, event_type) == [raised |-> "", ret |-> any_from(ev, event_type, 2)]

any(ev, event_type) == [raised |-> "", ret |-> any_from(ev, event_type, 1)]

\* a clear that counts the ticks an identifier was absent
clear_events_prev_inverted(ev, prev) ==
  [k \in DOMAIN prev |-> IF k \in Range(ev) THEN 0 ELSE prev[k] + 1]

\* a clear that keeps the count of an identifier that was absent
clear_events_prev_kept(ev, prev) ==
  [k \in DOMAIN prev |-> IF k \in Range(ev) THEN prev[k] + 1 ELSE prev[k]]

\* a clear that starts a counter for every identifier of events
clear_events_prev_all(ev, prev) ==
  [k \in DOMAIN prev \cup Range(ev) |->
     IF k \notin DOMAIN prev THEN 1
     ELSE IF k \in Range(ev) THEN prev[k] + 1 ELSE 0]

\* a clear whose counters stop at the longest creation delay
clear_events_prev_saturating(ev, prev) ==
  [k \in DOMAIN prev |->
     IF k \notin Range(ev) THEN 0
     ELSE IF prev[k] < MaxDelayTicks THEN prev[k] + 1 ELSE prev[k]]

\* Events.clear, line 59: the new events_prev
clear_events_prev(ev, prev) ==
  [k \in DOMAIN prev |-> IF k \in Range(ev) THEN prev[k] + 1 ELSE 0]

\* a clear that forgets the static events
clear_events_empty(static) == <<>>

\* a clear that copies static_events twice
clear_events_doubled(static) == static \o static

\* Events.clear, line 60: the new events
clear_events(static) == static

\* Events.create_alerts, line 81: the creation delay of alert has elapsed
delay_elapsed(prev, e, alert) == DT_CTRL * (prev[e] + 1) >= alert.creation_delay

\* stamps that leave alert_type as it was
stamp_event_type_only(alert, e, et) == [alert EXCEPT !.event_type = et]

\* Events.create_alerts, lines 82-83: the stamps
stamp(alert, e, et) ==
  [alert EXCEPT !.alert_type = EVENT_NAME[e] \o "/" \o et, !.event_type = et]

\* Events.create_alerts, lines 75-84: the inner loop over event_types for
\* the event e, appending to ret
RECURSIVE create_alerts_types(_, _, _, _, _, _)
create_alerts_types(e, prev, event_types, callback_args, j, ret) ==
  IF j > Len(event_types) THEN [raised |-> "", ret |-> ret]
  ELSE LET et == event_types[j] IN
    IF et \notin DOMAIN EVENTS[e]
    THEN create_alerts_types(e, prev, event_types, callback_args, j + 1, ret)
    ELSE LET entry == EVENTS[e][et]
             made == IF entry.isAlert THEN [raised |-> "", alert |-> entry.alert]
                     ELSE Call(entry.fn, callback_args)
         IN IF made.raised # "" THEN [raised |-> made.raised, ret |-> <<>>]
            ELSE create_alerts_types(e, prev, event_types, callback_args, j + 1,
                   IF delay_elapsed(prev, e, made.alert)
                   THEN Append(ret, stamp(made.alert, e, et))
                   ELSE ret)

\* Events.create_alerts, lines 73-85: the outer loop over self.events;
\* EVENTS[e] raises KeyError for an identifier EVENTS has no entry for
RECURSIVE create_alerts_from(_, _, _, _, _, _)
create_alerts_from(ev, prev, event_types, callback_args, i, ret) ==
  IF i > Len(ev) THEN [raised |-> "", ret |-> ret]
  ELSE IF ev[i] \notin EVENTS_keys THEN [raised |-> "KeyError", ret |-> <<>>]
  ELSE LET r == create_alerts_types(ev[i], prev, event_types, callback_args, 1, ret)
       IN IF r.raised # "" THEN r
          ELSE create_alerts_from(ev, prev, event_types, callback_args, i + 1, r.ret)

\* Events.create_alerts
create_alerts(ev, prev, event_types, callback_args) ==
  create_alerts_from(ev, prev, event_types, callback_args, 1, <<>>)

\* Events.create_alerts, lines 73-83: the entries <<e, et>> of EVENTS whose
\* Alert instance receives the stamps, gathered over the two loops from
\* events[i] and event_types[j] on.  alert = EVENTS[e][et] is the instance
\* the catalog holds when the entry is an Alert, and a new instance when the
\* entry is a callable.  The loops stop at the first event EVENTS has no
\* entry for (line 74) and at the first callable that raises (line 79); the
\* stamps assigned before that stay.
RECURSIVE create_alerts_writes_from(_, _, _, _, _, _, _)
create_alerts_writes_from(ev, prev, event_types, callback_args, i, j, writes) ==
  IF i > Len(ev) THEN writes
  ELSE IF ev[i] \notin EVENTS_keys THEN writes
  ELSE IF j > Len(event_types)
  THEN create_alerts_writes_from(ev, prev, event_types, callback_args, i + 1, 1, writes)
  ELSE IF event_types[j] \notin DOMAIN EVENTS[ev[i]]
  THEN create_alerts_writes_from(ev, prev, event_types, callback_args, i, j + 1, writes)
  ELSE LET entry == EVENTS[ev[i]][event_types[j]] IN
    IF entry.isAlert
    THEN create_alerts_writes_from(ev, prev, event_types, callback_args, i, j + 1,
           IF delay_elapsed(prev, ev[i], entry.alert)
           THEN writes \cup {<<ev[i], event_types[j]>>}
           ELSE writes)
    ELSE IF Call(entry.fn, callback_args).raised # "" THEN writes
    ELSE create_alerts_writes_from(ev, prev, event_types, callback_args, i, j + 1, writes)

create_alerts_writes(ev, prev, event_types, callback_args) ==
  create_alerts_writes_from(ev, prev, event_types, callback_args, 1, 1, {})

\* a to_msg that skips the identifiers EVENTS has no entry for
to_msg_catalog_only(ev) ==
  LET kept == SelectSeq(ev, LAMBDA e : e \in EVENTS_keys) IN
  [i \in 1..Len(kept) |-> [name |-> EVENT_NAME[kept[i]], flags |-> EVENTS_get_keys(kept[i])]]

\* Events.to_msg: one CarEvent per element of the list, its name the
\* enumerant of the raw value and a flag for every type EVENTS gives it
to_msg(ev) ==
  [i \in 1..Len(ev) |-> [name |-> EVENT_NAME[ev[i]], flags |-> EVENTS_get_keys(ev[i])]]

\* Events.add_from_msg: e.name.raw is appended for every CarEvent
add_from_msg(ev, msgs) == ev \o [i \in 1..Len(msgs) |-> EventName[msgs[i].name]]

\* ------------------------------------------------------- AlertArbiter
\* the maximum of a non-empty list of alerts under Alert.__gt__: a later
\* alert replaces the best so far only when it is greater
RECURSIVE max_from(_, _, _)
max_from(alerts, i, best) ==
  IF i > Len(alerts) THEN best
  ELSE max_from(alerts, i + 1, IF Alert__gt__(alerts[i], best) THEN alerts[i] ELSE best)

\* select(category, runtimeContext): resolves the alerts of the category and
\* picks the maximum by priority; <<>> when there is none; a failure of the
\* resolution is passed on to the caller
select(ev, prev, category, runtimeContext) ==
  LET r == create_alerts(ev, prev, <<category>>, runtimeContext) IN
  IF r.raised # "" THEN r
  ELSE IF r.ret = <<>> THEN [raised |-> "", ret |-> <<>>]
  ELSE [raised |-> "", ret |-> <<max_from(r.ret, 2, r.ret[1])>>]

\* --------------------------------------------------------------- inputs
\* car.CarParams values handed to the alert callbacks
CarParams == {[carName |-> "honda"], [carName |-> "hyundai"]}

\* callback_args: the default None (no arguments) or [CP, sm, metric]
CallbackArgs == {<<>>} \cup {<<CP, "sm", TRUE>> : CP \in CarParams}

\* runtimeContext values handed to select: none, or the arguments controlsd
\* hands to the alert callbacks
SelectArgs == {<<>>, DefaultArgs}

\* event types the queries of the model ask for
QueryTypes == {NO_ENTRY, PERMANENT, WARNING}

\* event_types lists handed to create_alerts
EventTypeLists == {<<NO_ENTRY>>, <<PERMANENT>>, <<NO_ENTRY, PERMANENT>>}

\* events lists of the Events object whose to_msg output add_from_msg receives
PeerEvents == {<<e>> : e \in EventIds}
                \cup {<<EventName.outOfSpace, EventName.reverseGear>>}

\* event_types lists handed to create_alerts over a long run of ticks
LongTypeLists == {<<WARNING>>, <<PERMANENT>>, <<WARNING, PERMANENT>>}

\* -------------------------------------------------------------- actions
Init ==
  /\ Events_init
  /\ out = [op |-> "init", arg |-> <<>>, raised |-> "", ret |-> <<>>]
  /\ streak = [k \in EVENTS_keys |-> 0]
  /\ catalog_writes = {}

\* Events.add, with static_events built up to max_static
Add(event_name, static, max_static) ==
  /\ Len(events) < MaxEvents
  /\ static => Len(static_events) < max_static
  /\ static_events' = IF static THEN Append(static_events, event_name)
                      ELSE static_events
  /\ events' = Append(events, event_name)
  /\ out' = [op |-> "add", arg |-> <<event_name, static>>, raised |-> "", ret |-> <<>>]
  /\ catalog_writes' = {}
  /\ UNCHANGED <<events_prev, streak>>

\* Events.clear, with the counters running up to max_ticks
Clear(max_ticks) ==
  /\ \A k \in Range(events) \cap DOMAIN events_prev : events_prev[k] < max_ticks
  /\ events_prev' = clear_events_prev(events, events_prev)
  /\ events' = clear_events(static_events)
  /\ out' = [op |-> "clear", arg |-> <<>>, raised |-> "", ret |-> <<>>]
  /\ streak' = [k \in EVENTS_keys |-> IF k \in Range(events) THEN streak[k] + 1 ELSE 0]
  /\ catalog_writes' = {}
  /\ UNCHANGED static_events

\* Events.add
DoAdd(event_name, static) == Add(event_name, static, MaxStatic)

\* Events.clear
DoClear == Clear(MaxTicks)

\* an any that counts a tick for every identifier of events
DoAny_counting(event_type) ==
  /\ out' = [op |-> "any", arg |-> <<event_type>>] @@ any(events, event_type)
  /\ events_prev' = clear_events_prev(events, events_prev)
  /\ catalog_writes' = {}
  /\ UNCHANGED <<events, static_events, streak>>

\* Events.any
DoAny(event_type) ==
  /\ out' = [op |-> "any", arg |-> <<event_type>>] @@ any(events, event_type)
  /\ catalog_writes' = {}
  /\ UNCHANGED <<events, static_events, events_prev, streak>>

\* Events.create_alerts
DoCreateAlerts(event_types, callback_args) ==
  /\ out' = [op |-> "create_alerts", arg |-> <<event_types, callback_args>>]
              @@ create_alerts(events, events_prev, event_types, callback_args)
  /\ catalog_writes' = create_alerts_writes(events, events_prev, event_types,
                                            callback_args)
  /\ UNCHANGED <<events, static_events, events_prev, streak>>

\* select
DoSelect(category, runtimeContext) ==
  /\ out' = [op |-> "select", arg |-> <<category, runtimeContext>>]
              @@ select(events, events_prev, category, runtimeContext)
  /\ catalog_writes' = create_alerts_writes(events, events_prev, <<category>>,
                                            runtimeContext)
  /\ UNCHANGED <<events, static_events, events_prev, streak>>

\* Events.to_msg
DoToMsg ==
  /\ out' = [op |-> "to_msg", arg |-> <<>>, raised |-> "", ret |-> to_msg(events)]
  /\ catalog_writes' = {}
  /\ UNCHANGED <<events, static_events, events_prev, streak>>

\* Events.add_from_msg
DoAddFromMsg(msgs) ==
  /\ Len(events) + Len(msgs) <= MaxEvents
  /\ events' = add_from_msg(events, msgs)
  /\ out' = [op |-> "add_from_msg", arg |-> <<msgs>>, raised |-> "", ret |-> <<>>]
  /\ catalog_writes' = {}
  /\ UNCHANGED <<static_events, events_prev, streak>>

\* Events.__len__
DoLen ==
  /\ out' = [op |-> "len", arg |-> <<>>, raised |-> "", ret |-> len(events)]
  /\ catalog_writes' = {}
  /\ UNCHANGED <<events, static_events, events_prev, streak>>

\* a newly constructed Events object receives add_from_msg(self.to_msg());
\* ret is its events list
DoRoundTrip ==
  /\ out' = [op |-> "round_trip", arg |-> <<>>, raised |-> "",
             ret |-> add_from_msg(<<>>, to_msg(events))]
  /\ catalog_writes' = {}
  /\ UNCHANGED <<events, static_events, events_prev, streak>>

Next ==
  \/ \E e \in EventIds, static \in BOOLEAN : DoAdd(e, static)
  \/ DoClear
  \/ \E et \in QueryTypes : DoAny(et)
  \/ \E ets \in EventTypeLists, args \in CallbackArgs : DoCreateAlerts(ets, args)
  \/ \E et \in QueryTypes, args \in SelectArgs : DoSelect(et, args)
  \/ DoToMsg
  \/ \E p \in PeerEvents : DoAddFromMsg(to_msg(p))
  \/ DoLen
  \/ DoRoundTrip

Spec == Init /\ [][Next]_vars

\* Events.add over a long run of ticks
LongAdd(event_name, static) == Add(event_name, static, LongStatic)

\* Events.clear over a long run of ticks
LongClear == Clear(LongTicks)

\* a long run of ticks: identifiers are added, static or not, the tick is
\* cleared and the alerts are resolved
LongNext ==
  \/ \E e \in LongIds, static \in BOOLEAN : LongAdd(e, static)
  \/ LongClear
  \/ \E ets \in LongTypeLists : DoCreateAlerts(ets, DefaultArgs)
  \/ DoToMsg

SpecLong == Init /\ [][LongNext]_vars

\* ------------------------------------------------------------ properties
\* the result r of a query holds the alert of e under et
Returned(r, e, et) ==
  \E i \in 1..Len(r.ret) : r.ret[i].alert_type = EVENT_NAME[e] \o "/" \o et

\* identifiers of events that EVENTS has an entry for
Known(ev) == Range(ev) \cap EVENTS_keys

\* C1 (as claimed): an identifier pushed on every tick since it was last
\* inactive is on its k-th such tick, k = streak + 1; with creation delay D
\* create_alerts returns no alert for it while k <= floor(D / DT_CTRL) and
\* returns its alert on every later tick.  Stated for the ticks on which
\* every active identifier is in the catalog.
C1_DebounceFloor ==
  Range(events) \subseteq EVENTS_keys =>
  \A e \in Known(events) : \A et \in DOMAIN EVENTS[e] :
    LET D == Descriptor(e, et).creation_delay
        k == streak[e] + 1
        r == create_alerts(events, events_prev, <<et>>, DefaultArgs)
    IN IF k <= D \div DT_CTRL
       THEN ~Returned(r, e, et)
       ELSE r.raised = "" /\ Returned(r, e, et)

\* C2 (as claimed): at every clear the counter of an identifier grows by 1
\* if the identifier was not in events and becomes 0 if it was.
C2_CounterCountsInactive ==
  [][out'.op = "clear" =>
       \A k \in EVENTS_keys :
         events_prev'[k] = IF k \notin Range(events) THEN events_prev[k] + 1 ELSE 0]_vars

\* C2 (amended): at every clear the counter of every catalog identifier
\* grows by 1 if the identifier was in events and becomes 0 if it was not.
C2_CounterCountsActive ==
  [][out'.op = "clear" =>
       /\ DOMAIN events_prev' = EVENTS_keys
       /\ \A k \in EVENTS_keys :
            /\ k \in Range(events) => events_prev'[k] = events_prev[k] + 1
            /\ k \notin Range(events) => events_prev'[k] = 0]_vars

\* C2 witness: after a clear one counter has counted two active ticks while
\* another was reset
C2_Witness ==
  /\ out.op = "clear"
  /\ \E k \in EVENTS_keys : events_prev[k] = 2
  /\ \E k \in EVENTS_keys : events_prev[k] = 0

\* C3: an identifier of static_events stays in static_events and is in
\* events after every step, a clear included, without being added again.
C3_StickyPersists ==
  [][\A i \in 1..Len(static_events) :
       /\ static_events[i] \in Range(static_events')
       /\ static_events[i] \in Range(events')]_vars

\* C3 witness: a clear has just re-seeded events from a non-empty
\* static_events, and not for the first time
C3_Witness ==
  /\ out.op = "clear"
  /\ static_events # <<>>
  /\ events = static_events
  /\ \A i \in 1..Len(static_events) :
       static_events[i] \in EVENTS_keys => events_prev[static_events[i]] >= 2

\* the active identifiers whose alert under et has passed the delay gate
Eligible(et) ==
  {e \in Known(events) :
     /\ et \in DOMAIN EVENTS[e]
     /\ delay_elapsed(events_prev, e, Descriptor(e, et))}

\* the highest priority among the eligible alerts under et
TopPriority(et) ==
  CHOOSE p \in {Descriptor(e, et).alert_priority : e \in Eligible(et)} :
    \A e \in Eligible(et) : Descriptor(e, et).alert_priority <= p

\* position of a catalog identifier in the order EVENTS registers it
CatalogIndex(e) == CHOOSE i \in 1..Len(CatalogOrder) : CatalogOrder[i] = e

\* C4 (as claimed): for every category select returns none iff no active
\* identifier has an eligible alert under it, and otherwise returns one of
\* the eligible alerts, of the highest priority among them.
C4_Selection ==
  \A et \in ET :
    LET s == select(events, events_prev, et, DefaultArgs) IN
    /\ s.raised = ""
    /\ s.ret = <<>> <=> Eligible(et) = {}
    /\ s.ret # <<>> =>
         /\ \E e \in Eligible(et) : s.ret[1] = stamp(Descriptor(e, et), e, et)
         /\ s.ret[1].alert_priority = TopPriority(et)

C6_UnknownIdResolves ==
  \A u \in Range(events) \ EVENTS_keys : \A ets \in EventTypeLists :
    LET r == create_alerts(events, events_prev, ets, DefaultArgs) IN
    /\ r.raised = ""
    /\ \A i \in 1..Len(r.ret), et \in ET :
         r.ret[i].alert_type # EVENT_NAME[u] \o "/" \o et

\* events without the identifiers EVENTS has no entry for
KnownOnly(ev) == SelectSeq(ev, LAMBDA e : e \in EVENTS_keys)

\* C7: any(category) never fails and returns a boolean, and the active
\* identifiers without catalog entry do not change its value.
C7_AnyTotal ==
  \A et \in ET :
    /\ any(events, et).raised = ""
    /\ any(events, et).ret \in BOOLEAN
    /\ any(events, et).ret = any(KnownOnly(events), et).ret

\* C7 witness: any has been asked while only an identifier without catalog
\* entry is active, and answered FALSE
C7_Witness ==
  /\ out.op = "any"
  /\ events # <<>>
  /\ Known(events) = {}
  /\ out.raised = ""
  /\ out.ret = FALSE

\* C8: any(category) is true iff some identifier of events has an entry
\* for the category in EVENTS.
C8_AnyCorrect ==
  \A et \in ET :
    any(events, et).ret <=> \E e \in Known(events) : et \in DOMAIN EVENTS[e]

\* C8 witness: any has answered TRUE on account of the second of two active
\* identifiers, the first having no entry for the category
C8_Witness ==
  /\ out.op = "any"
  /\ out.ret = TRUE
  /\ Len(events) = 2
  /\ out.arg[1] \notin EVENTS_get_keys(events[1])
  /\ out.arg[1] \in EVENTS_get_keys(events[2])

\* C9 (as claimed): to_msg emits exactly one record for every identifier of
\* events and no other record, and the flags of a record are the types
\* EVENTS gives its identifier.
C9_OneRecordPerIdentifier ==
  LET msg == to_msg(events) IN
  /\ \A e \in Range(events) :
       Cardinality({i \in 1..Len(msg) : msg[i].name = EVENT_NAME[e]}) = 1
  /\ \A i \in 1..Len(msg) :
       /\ EventName[msg[i].name] \in Range(events)
       /\ msg[i].flags = EVENTS_get_keys(EventName[msg[i].name])

\* C10: an Events object that receives add_from_msg(to_msg()) of a populated
\* one holds the same identifiers, and any returns the same for every category.
C10_RoundTrip ==
  events # <<>> =>
    LET received == add_from_msg(<<>>, to_msg(events)) IN
    /\ Range(received) = Range(events)
    /\ \A et \in ET : any(received, et) = any(events, et)

\* C10 witness: the round trip has been made from a list with a catalog
\* identifier and one without catalog entry
C10_Witness ==
  /\ out.op = "round_trip"
  /\ Known(events) # {}
  /\ Range(events) \ EVENTS_keys # {}
  /\ out.ret = events

\* what the queries of a tick show of the lists ev and the counters prev:
\* any for every type, create_alerts for every list of types, to_msg, and
\* the counters the next clear computes
Observable(ev, prev) ==
  [any |-> [et \in ET |-> any(ev, et)],
   alerts |-> [ets \in EventTypeLists |-> create_alerts(ev, prev, ets, DefaultArgs)],
   msg |-> to_msg(ev),
   counters |-> clear_events_prev(ev, prev)]

\* C11 (as claimed): an add of an identifier that has already been added in
\* the tick (no static events, so every element of events was pushed in this
\* tick) changes nothing that any, create_alerts, to_msg or the counters
\* after the next clear show.
C11_DuplicateAddIdempotent ==
  [][(/\ out'.op = "add"
      /\ ~out'.arg[2]
      /\ static_events = <<>>
      /\ out'.arg[1] \in Range(events))
       => Observable(events', events_prev') = Observable(events, events_prev)]_vars

\* C12 (as claimed): while an identifier whose alert has alert_rate > 0 is
\* active and the delay gate is open, create_alerts returns without raising
\* with that alert, once for every time the identifier is in events, and
\* with the content of the catalog descriptor plus the stamps, the same on
\* every such tick; the gate is the one of the same alert with alert_rate 0.
C12_RateInert ==
  \A e \in Known(events) : \A et \in DOMAIN EVENTS[e] :
    LET d == Descriptor(e, et)
        r == create_alerts(events, events_prev, <<et>>, DefaultArgs)
    IN d.alert_rate > 0 =>
         /\ delay_elapsed(events_prev, e, d)
              = delay_elapsed(events_prev, e, [d EXCEPT !.alert_rate = 0])
         /\ delay_elapsed(events_prev, e, d) =>
              /\ r.raised = ""
              /\ Cardinality({i \in 1..Len(r.ret) : r.ret[i] = stamp(d, e, et)})
                   = Cardinality({i \in 1..Len(events) : events[i] = e})

\* C13: right after a clear events is static_events: what was pushed
\* without static is gone and nothing else is active.
C13_ClearReseeds ==
  out.op = "clear" => events = static_events /\ Range(events) = Range(static_events)

\* C13 witness: a clear has dropped an identifier that was active in the
\* tick it ended and has kept the static one
C13_Witness ==
  /\ out.op = "clear"
  /\ static_events # <<>>
  /\ events = static_events
  /\ \E k \in EVENTS_keys \ Range(static_events) : events_prev[k] >= 1

\* C14: for an alert with a creation delay D longer than a tick, the alert
\* of an identifier that was absent at the last clear (streak 0) is
\* withheld, and an alert is returned only when the ticks in a row on which
\* the identifier has been active, the current one included, cover D.
C14_DebounceRestarts ==
  \A e \in Known(events) : \A et \in DOMAIN EVENTS[e] :
    LET D == Descriptor(e, et).creation_delay
        r == create_alerts(events, events_prev, <<et>>, DefaultArgs)
    IN D > DT_CTRL =>
         /\ streak[e] = 0 => ~Returned(r, e, et)
         /\ Returned(r, e, et) => DT_CTRL * (streak[e] + 1) >= D

\* C14 witness: ticks have gone by (a static identifier has counted two),
\* reverseGear was absent at the last clear and is active again, and
\* create_alerts has withheld its permanent alert
C14_Witness ==
  /\ out.op = "create_alerts"
  /\ out.arg[1] = <<PERMANENT>>
  /\ out.raised = ""
  /\ EventName.reverseGear \in Range(events)
  /\ streak[EventName.reverseGear] = 0
  /\ \E k \in EVENTS_keys : events_prev[k] >= 2
  /\ ~Returned(out, EventName.reverseGear, PERMANENT)

\* C15: every alert a create_alerts has returned is the descriptor EVENTS
\* holds (or its callback makes) for an active identifier under a requested
\* type, with alert_type and event_type set to that pair; and the active
\* catalog identifiers that have none of the requested types change neither
\* what is returned nor whether the call raises.
C15_ResolutionContent ==
  out.op = "create_alerts" =>
    LET event_types == out.arg[1]
        callback_args == out.arg[2]
        made(e, et) == IF EVENTS[e][et].isAlert THEN EVENTS[e][et].alert
                       ELSE Call(EVENTS[e][et].fn, callback_args).alert
        silent(e) == e \in EVENTS_keys /\ DOMAIN EVENTS[e] \cap Range(event_types) = {}
        rest == SelectSeq(events, LAMBDA e : ~silent(e))
    IN /\ \A i \in 1..Len(out.ret) :
            \E e \in Known(events) : \E et \in Range(event_types) \cap DOMAIN EVENTS[e] :
              out.ret[i] = [made(e, et) EXCEPT
                              !.alert_type = EVENT_NAME[e] \o "/" \o et,
                              !.event_type = et]
       /\ rest # events =>
            create_alerts(rest, events_prev, event_types, callback_args)
              = [raised |-> out.raised, ret |-> out.ret]

\* C15 witness: create_alerts has returned an alert while an active catalog
\* identifier has none of the requested types
C15_Witness ==
  /\ out.op = "create_alerts"
  /\ out.raised = ""
  /\ out.ret # <<>>
  /\ \E e \in Known(events) : DOMAIN EVENTS[e] \cap Range(out.arg[1]) = {}

\* create_alerts on ev reaches a callable entry of a requested type before
\* any identifier without catalog entry, and callback_args are not the three
\* arguments the callbacks take
FactoryFails(ev, event_types, callback_args) ==
  /\ Len(callback_args) # 3
  /\ \E i \in 1..Len(ev) :
       /\ \A k \in 1..i : ev[k] \in EVENTS_keys
       /\ \E j \in 1..Len(event_types) :
            /\ event_types[j] \in DOMAIN EVENTS[ev[i]]
            /\ ~EVENTS[ev[i]][event_types[j]].isAlert

\* C16: a create_alerts in which a callback fails raises to its caller,
\* returns nothing, and leaves events, static_events and events_prev as they
\* were.
C16_FactoryFailureRecoverable ==
  [][(out'.op = "create_alerts" /\ FactoryFails(events, out'.arg[1], out'.arg[2]))
       => /\ out'.raised = "TypeError"
          /\ out'.ret = <<>>
          /\ events' = events
          /\ static_events' = static_events
          /\ events_prev' = events_prev]_vars

\* C16 witness: create_alerts has raised out of a callback in a tick with a
\* static identifier, two active identifiers and a counter that has counted
C16_Witness ==
  /\ out.op = "create_alerts"
  /\ out.raised = "TypeError"
  /\ static_events # <<>>
  /\ Len(events) = 2
  /\ \E k \in EVENTS_keys : events_prev[k] >= 1

\* C17 (as claimed): every Alert instance of EVENTS that the last operation
\* assigned to is as EVENTS constructed it.
C17_CatalogReadOnly ==
  \A w \in catalog_writes :
    stamp(EVENTS[w[1]][w[2]].alert, w[1], w[2]) = EVENTS[w[1]][w[2]].alert

\* C18: the keys of events_prev are the keys of EVENTS.
C18_CounterKeys == DOMAIN events_prev = EVENTS_keys

\* C18 witness: an identifier without catalog entry has been added static
\* and ticks have been cleared with it active
C18_Witness ==
  /\ out.op = "clear"
  /\ EventName.unregistered \in Range(static_events)
  /\ EventName.unregistered \in Range(events)
  /\ \E k \in EVENTS_keys : events_prev[k] >= 1

\* C19 (as claimed): no counter of events_prev exceeds the longest creation
\* delay of the catalog in ticks.
C19_CounterSaturates ==
  \A k \in DOMAIN events_prev : events_prev[k] <= MaxDelayTicks

\* C19 (amended): the counter of every catalog identifier is the number of
\* ticks in a row, up to the last clear, on which the identifier was active,
\* whatever the creation delays are.
C19_CounterCountsStreak ==
  \A k \in EVENTS_keys : events_prev[k] = streak[k]

\* C19 witness: the counter of a static identifier has passed the longest
\* creation delay of the catalog
C19_Witness ==
  \E k \in Known(static_events) : events_prev[k] > MaxDelayTicks

\* C20 (as claimed), for the lists a tick starts with: right after a clear
\* no identifier is twice in static_events and none is twice in events.
C20_NoDuplicates ==
  out.op = "clear" =>
    /\ Cardinality(Range(static_events)) = Len(static_events)
    /\ Cardinality(Range(events)) = Len(events)

\* C21 (as claimed): a clear that follows a clear with nothing in between
\* leaves events, static_events and every counter as they are.
C21_DoubleClearIdempotent ==
  [][(out.op = "clear" /\ out'.op = "clear")
       => /\ events' = events
          /\ static_events' = static_events
          /\ events_prev' = events_prev]_vars

\* C22: any, create_alerts, select, to_msg, __len__ and the round trip leave
\* events, static_events and events_prev as they are, add and add_from_msg
\* leave events_prev as it is, and events_prev changes in a clear only.
C22_QueriesPure ==
  [][/\ out'.op \in {"any", "create_alerts", "select", "to_msg", "len", "round_trip"}
          => /\ events' = events
             /\ static_events' = static_events
             /\ events_prev' = events_prev
     /\ out'.op \in {"add", "add_from_msg"} => events_prev' = events_prev
     /\ events_prev' # events_prev => out'.op = "clear"]_vars

\* C22 witness: create_alerts has returned an alert and stamped a catalog
\* instance in a tick with a static identifier and a counter that has counted
C22_Witness ==
  /\ out.op = "create_alerts"
  /\ out.ret # <<>>
  /\ catalog_writes # {}
  /\ static_events # <<>>
  /\ \E k \in EVENTS_keys : events_prev[k] >= 1

\* C23: for every type, any is true whenever create_alerts for that type
\* returns an alert, and whenever an active identifier has the type in
\* EVENTS, the delay gate of its alert open or not.
C23_AnyDominates ==
  \A et \in ET :
    /\ any(events, et).ret
         \/ create_alerts(events, events_prev, <<et>>, DefaultArgs).ret = <<>>
    /\ \A e \in Known(events) : et \in DOMAIN EVENTS[e] => any(events, et).ret

\* C23 witness: any has answered TRUE for permanent on the first tick of
\* reverseGear, while create_alerts withholds its permanent alert
C23_Witness ==
  /\ out.op = "any"
  /\ out.arg = <<PERMANENT>>
  /\ out.ret = TRUE
  /\ Range(events) = {EventName.reverseGear}
  /\ streak[EventName.reverseGear] = 0
  /\ create_alerts(events, events_prev, <<PERMANENT>>, DefaultArgs)
       = [raised |-> "", ret |-> <<>>]

====
